---- MODULE Spec2Model ----
(***************************************************************************)
(* Model of the squash-push extension (src/src/extension.ts): the          *)
(* squash-push.squashCommits command handler, the reader functions built   *)
(* on execGitCommand, the commit selector (showCommitSelection with its    *)
(* collapseAnimation) and the git repository the commands act on.          *)
(* The earlier squash-push.helloWorld handler (multi-select picker, squash *)
(* onto <commitID>~1, not awaited) is modelled next to it: Spec runs the   *)
(* squashCommits handler, SpecHello the helloWorld handler.                *)
(*                                                                         *)
(* Strings are modelled as sequences of space-separated tokens, so that    *)
(* String.split(" ")[n] is the (n+1)-th element: a log line is             *)
(* <<id, word, ...>>, a command line is <<"git", "log", ...>>.             *)
(***************************************************************************)
EXTENDS Integers, Sequences, FiniteSets, TLC

\* ---------------------------------------------------------------- bounds
NumCommits == 3     \* commits on the branch when the model starts
MaxRuns == 2        \* invocations of the command
MaxAccepts == 2     \* accept events the user fires, over all selectors

Runs == 1..MaxRuns

\* ------------------------------------------------------- JavaScript values
NULL == "<null>"
UNDEFINED == "<undefined>"
NullText == << <<NULL>> >>     \* null where the value is a text of lines

\* !v for a value that is a name (one token), and for a text (lines or tokens)
Falsy(v) == v \in {NULL, UNDEFINED, ""}
FalsyText(t) == t = NullText \/ t = <<>>

\* ------------------------------------------------------ command templates
CURRENT_BRANCH == <<"git", "symbolic-ref", "--short", "HEAD">>

UPSTREAM_BRANCH(branch) ==
  <<"git", "rev-parse", "--symbolic-full-name", "--abbrev-ref", branch, "@{upstream}">>

LOCAL_COMMITS == <<"git", "log", "--oneline">>

LOCAL_COMMITS_TRACKING(upstreamBranch, branch) ==
  <<"git", "log", "--oneline", upstreamBranch, "..", branch>>

\* the template of the helloWorld handler
helloWorld_SQUASH_AND_COMMIT(commitID) ==
  <<"git", "reset", "--soft", commitID, "~1", "&&", "git", "commit", "--amend">>

\* variant: the reset goes to the parent of the chosen commit
SQUASH_AND_COMMIT_parent(commitID) ==
  <<"git", "reset", "--soft", commitID, "~1", "&&", "git", "commit", "--amend">>

SQUASH_AND_COMMIT(commitID) ==
  <<"git", "reset", "--soft", commitID, "&&", "git", "commit", "--amend">>

IsSquash(cmd) == Len(cmd) >= 2 /\ cmd[2] = "reset"
IsLog(cmd) == Len(cmd) >= 2 /\ cmd[2] = "log"

\* ----------------------------------------------------------- notifications
MsgNoWorkspace == "No workspace folder found."
MsgDetached == "You are maybe in detached State, please checkout to a branch"
MsgNoCommits == "No local commits found."
MsgSquashing == "Squashing commits. Edit the message or close the editor to keep the default"
MsgSquashed == "Commits squashed!"
MsgSquashError == "An Error Occurred while squashing commits"
MsgReady == "Ready to squash above:"
MsgNoneSelected == "No commits are selected."
MsgManySelected ==
  "You have selected more than one commits, Please select the oldest commit to keep as base"
LogSquashError == "An Error Occurred while squashing"
LogSelectionError == "An Error Occurred while showing selection window"

\* ------------------------------------------------------------------ state
VARIABLES
  workspaceFolder,  \* vscode.workspace.workspaceFolders?.[0].uri.fsPath, or UNDEFINED
  branch,           \* name of the checked-out branch, NULL when HEAD is detached
  upstream,         \* commit the configured upstream branch points at, NULL when none
  commits,          \* the object store: id -> [parent, tree, summary]
  head,             \* commit the current branch points at
  index,            \* the staged tree
  run               \* per invocation of the command: the handler's frame and its selector

repoVars == <<workspaceFolder, branch, upstream, commits, head, index>>
vars == <<workspaceFolder, branch, upstream, commits, head, index, run>>

BranchName == "main"
UpstreamName == "origin/main"
WorkspacePath == "/repo"

\* -------------------------------------------------------------- repository
CommitName(k) == "c" \o ToString(k)
NewCommitName(j) == "n" \o ToString(j)

SummaryPool == << <<"init">>, <<"add", "x">>, <<"fix">>, <<"revert", "c1">> >>
SummaryOf(k) == SummaryPool[((k - 1) % Len(SummaryPool)) + 1]

InitialCommits ==
  [c \in {CommitName(k) : k \in 1..NumCommits} |->
     LET k == CHOOSE j \in 1..NumCommits : CommitName(j) = c
     IN [parent |-> IF k = 1 THEN NULL ELSE CommitName(k - 1),
         tree |-> k,
         summary |-> SummaryOf(k)]]

RECURSIVE History(_, _)
\* the commits reachable from c, newest first
History(store, c) ==
  IF c = NULL \/ c \notin DOMAIN store THEN <<>>
  ELSE <<c>> \o History(store, store[c].parent)

SeqToSet(s) == {s[i] : i \in 1..Len(s)}

LogLine(store, c) == <<c>> \o store[c].summary

RECURSIVE MapLogLine(_, _)
MapLogLine(store, ids) ==
  IF ids = <<>> THEN <<>>
  ELSE <<LogLine(store, Head(ids))>> \o MapLogLine(store, Tail(ids))

\* git log --oneline: every commit reachable from HEAD
FullLog == MapLogLine(commits, History(commits, head))

\* git log --oneline <upstream>..<branch>: reachable from the branch, not from upstream
TrackingLog ==
  LET pushed == SeqToSet(History(commits, upstream))
  IN MapLogLine(commits, SelectSeq(History(commits, head), LAMBDA c : c \notin pushed))

\* stdout of a query command run against the repository; fails -> NULL
GitQuery(cmd, fails) ==
  IF cmd[2] = "log"
  THEN (IF fails THEN NullText ELSE IF cmd = LOCAL_COMMITS THEN FullLog ELSE TrackingLog)
  ELSE IF fails THEN NULL
  ELSE IF cmd = CURRENT_BRANCH THEN branch
  ELSE (IF upstream = NULL THEN NULL ELSE UpstreamName)

\* the revision named by the argument of git reset --soft in a squash command
ResetTarget(cmd) ==
  IF cmd[5] = "~1"
  THEN (IF cmd[4] \in DOMAIN commits THEN commits[cmd[4]].parent ELSE NULL)
  ELSE (IF cmd[4] \in DOMAIN commits THEN cmd[4] ELSE NULL)

\* variant: a plain commit on top of HEAD
AmendCommit_append ==
  [parent |-> head, tree |-> index, summary |-> commits[head].summary]

\* git commit --amend: a new commit takes the place of HEAD, with the staged tree
AmendCommit ==
  [parent |-> commits[head].parent, tree |-> index, summary |-> commits[head].summary]

FreshCommit == NewCommitName(Cardinality(DOMAIN commits) - NumCommits + 1)

\* ------------------------------------------------------------ run records
RepoSnapshot == [history |-> History(commits, head), head |-> head, index |-> index]
NoSnapshot == [history |-> <<>>, head |-> NULL, index |-> 0]

NoQuickPick == [items |-> <<>>, visible |-> FALSE, disposed |-> FALSE]

IdleRun ==
  [pc |-> "idle",
   handler |-> "none",          \* the command this run is an invocation of
   currentBranch |-> NULL,
   currentUpstreamBranch |-> NULL,
   localCommits |-> NullText,
   commits |-> <<>>,            \* showCommitSelection: localCommits.split("\n")
   quickPick |-> NoQuickPick,
   settled |-> FALSE,           \* the promise of showCommitSelection is resolved
   selectedCommit |-> <<>>,
   accepts |-> 0,               \* accept events fired on the selector
   acceptedRow |-> 0,           \* row of the first accept that had a row selected
   anims |-> <<>>,              \* one entry per call of collapseAnimation
   selectedCommits |-> NullText, \* helloWorld: the result of showQuickPick
   commitID |-> NULL,
   proc |-> "none",             \* step the squash child process is at
   logged |-> <<>>,             \* console.error calls
   unhandled |-> FALSE,         \* a promise of this run was rejected with no handler
   notifications |-> <<>>,      \* show*Message calls made for this run, in order
   issued |-> <<>>,             \* command lines passed to execGitCommand, in order
   inflight |-> {},             \* commands whose promise is pending
   seen |-> NoSnapshot,         \* the repository when the log query ran
   made |-> NoSnapshot,         \* the repository when the squash command succeeded
   mutated |-> FALSE]           \* a command of this run changed the repository

Notify(rr, kind, text, arg) ==
  [rr EXCEPT !.notifications = Append(@, [kind |-> kind, text |-> text, arg |-> arg])]

showErrorMessage(rr, text) == Notify(rr, "error", text, <<>>)
showInformationMessage(rr, text) == Notify(rr, "info", text, <<>>)

\* execGitCommand: the child process is started and the promise is pending
execGitCommand(rr, cmd) ==
  [rr EXCEPT !.issued = Append(@, cmd), !.inflight = @ \cup {cmd}]

\* the exec callback has resolved or rejected the promise
Returned(rr, cmd) == [rr EXCEPT !.inflight = @ \ {cmd}]

Active(rr) == rr.pc \in {"branch", "upstream", "log", "select", "pick", "squash"}
Terminal(rr) == rr.pc # "idle" /\ ~Active(rr)

\* ---------------------------------------------------------------- selector
GitCommitIcon == <<"$(git-commit)", "Commit:">>
ArrowDownIcon == <<"$(arrow-down)">>
CheckIcon == <<"$(check)">>
DecorationTokens == SeqToSet(GitCommitIcon) \cup SeqToSet(ArrowDownIcon) \cup SeqToSet(CheckIcon)

\* index is 0-based as in the source
getDescription(idx, commitLines) ==
  IF idx = 0 THEN "\t(Most recent)"
  ELSE IF idx = Len(commitLines) - 1 THEN "\t(Oldest)"
  ELSE UNDEFINED

CommitItems(commitLines) ==
  [k \in 1..Len(commitLines) |->
     [label |-> GitCommitIcon \o commitLines[k],
      description |-> getDescription(k - 1, commitLines)]]

\* variant: the id is taken from the first token of the label
getCommitID_first(selectedCommit) ==
  IF selectedCommit = <<>> THEN NULL ELSE selectedCommit[1]

\* selectedCommit.split(" ")[2], null for "" and undefined
getCommitID(selectedCommit) ==
  IF selectedCommit = <<>> THEN NULL
  ELSE IF Len(selectedCommit) >= 3 THEN selectedCommit[3]
  ELSE UNDEFINED

Hole == [label |-> <<UNDEFINED>>, description |-> UNDEFINED]

\* newItems[i] = item on a copy of items (0-based i); a write past the end leaves holes
SetItem(items, i, item) ==
  [k \in 1..(IF i + 1 > Len(items) THEN i + 1 ELSE Len(items)) |->
     IF k = i + 1 THEN item ELSE IF k <= Len(items) THEN items[k] ELSE Hole]

\* items.findIndex(item => item.label === label), 0-based, -1 when absent
findIndex(items, label) ==
  IF \E k \in 1..Len(items) : items[k].label = label
  THEN (CHOOSE k \in 1..Len(items) :
          /\ items[k].label = label
          /\ \A j \in 1..(k - 1) : items[j].label # label) - 1
  ELSE -1

\* variant: the row of the base is marked as well
animate_inclusive(rr, a) ==
  LET an == rr.anims[a] IN
  IF an.i <= an.selectedIndex
  THEN [rr EXCEPT
          !.quickPick.items =
             SetItem(@, an.i, [label |-> ArrowDownIcon \o rr.commits[an.i + 1],
                               description |-> "Squashing..."]),
          !.anims[a].i = an.i + 1,
          !.anims[a].timer = "animate"]
  ELSE [rr EXCEPT
          !.quickPick.items =
             << [label |-> CheckIcon \o rr.commits[an.selectedIndex + 1],
                 description |-> "Final base commit"] >>,
          !.anims[a].timer = "hide"]

\* one call of animate() of the a-th collapseAnimation of the run
animate(rr, a) ==
  LET an == rr.anims[a] IN
  IF an.i < an.selectedIndex
  THEN [rr EXCEPT
          !.quickPick.items =
             SetItem(@, an.i, [label |-> ArrowDownIcon \o rr.commits[an.i + 1],
                               description |-> "Squashing..."]),
          !.anims[a].i = an.i + 1,
          !.anims[a].timer = "animate"]
  ELSE [rr EXCEPT
          !.quickPick.items =
             << [label |-> CheckIcon \o rr.commits[an.selectedIndex + 1],
                 description |-> "Final base commit"] >>,
          !.anims[a].timer = "hide"]

collapseAnimation(rr, selectedIndex) ==
  animate([rr EXCEPT !.anims = Append(@, [selectedIndex |-> selectedIndex, i |-> 0,
                                           timer |-> "none"])],
          Len(rr.anims) + 1)

\* variant: the squash command is started and not awaited
AfterSelection_noAwait(rr) ==
  LET commitID == getCommitID(rr.selectedCommit) IN
  IF Falsy(commitID)
  THEN [rr EXCEPT !.commitID = commitID, !.pc = "noSelection"]
  ELSE [execGitCommand(rr, SQUASH_AND_COMMIT(commitID))
          EXCEPT !.commitID = commitID, !.pc = "done", !.proc = "reset"]

\* the handler from the return of showCommitSelection to its next await or return
AfterSelection(rr) ==
  LET commitID == getCommitID(rr.selectedCommit) IN
  IF Falsy(commitID)
  THEN [rr EXCEPT !.commitID = commitID, !.pc = "noSelection"]
  ELSE [execGitCommand(showInformationMessage(rr, MsgSquashing), SQUASH_AND_COMMIT(commitID))
          EXCEPT !.commitID = commitID, !.pc = "squash", !.proc = "reset"]

\* variant: every call of resolve delivers its value to the handler
resolve_again(rr, value) ==
  AfterSelection([rr EXCEPT !.settled = TRUE, !.selectedCommit = value])

\* resolve(value) of the selector's promise: only the first call settles it, and the
\* handler resumes in a microtask, before any other event or timer
resolve(rr, value) ==
  IF rr.settled THEN rr
  ELSE AfterSelection([rr EXCEPT !.settled = TRUE, !.selectedCommit = value])

\* variant: the selector is disposed and the promise is left pending
onDidHide_noResolve(rr) == [rr EXCEPT !.quickPick.disposed = TRUE]

\* quickPick.onDidHide
onDidHide(rr) == resolve([rr EXCEPT !.quickPick.disposed = TRUE], <<>>)

\* variant: hiding the selector fires no event
hide_noEvent(rr) == [rr EXCEPT !.quickPick.visible = FALSE]

\* quickPick.hide(): fires onDidHide when the selector is showing
hide(rr) ==
  IF rr.quickPick.visible
  THEN onDidHide([rr EXCEPT !.quickPick.visible = FALSE])
  ELSE rr

\* quickPick.onDidAccept with the given row selected (0: no row is selected, and
\* selectedItem.label throws)
onDidAccept(rr, row) ==
  IF row = 0 THEN rr
  ELSE LET selectedItem == rr.quickPick.items[row]
           selectedIndex == findIndex(rr.quickPick.items, selectedItem.label)
       IN resolve(collapseAnimation(rr, selectedIndex), selectedItem.label)

showCommitSelection(rr, localCommits) ==
  [rr EXCEPT !.commits = localCommits,
             !.quickPick = [items |-> CommitItems(localCommits),
                            visible |-> TRUE, disposed |-> FALSE]]

\* ---------------------------------------------------------------- handler
\* The host starts one invocation per user action; the user triggers the command
\* again only after the previous run has ended (overlapping runs: see C19).
MayInvoke(r) == \A q \in Runs : ~Active(run[q])

\* variant: the branch query is issued whatever the workspace
Start_unchecked(rr, handler) ==
  [execGitCommand(rr, CURRENT_BRANCH) EXCEPT !.pc = "branch", !.handler = handler]

\* the handler from its start to its first await or return
Start(rr, handler) ==
  IF Falsy(workspaceFolder)
  THEN [showErrorMessage(rr, MsgNoWorkspace) EXCEPT !.pc = "noWorkspace", !.handler = handler]
  ELSE [execGitCommand(rr, CURRENT_BRANCH) EXCEPT !.pc = "branch", !.handler = handler]

\* The command is invoked: workspace check, then the branch query is awaited.
Invoke(r) ==
  /\ run[r].pc = "idle"
  /\ \A q \in Runs : q < r => run[q].pc # "idle"
  /\ MayInvoke(r)
  /\ run' = [run EXCEPT ![r] = Start(run[r], "squashCommits")]
  /\ UNCHANGED repoVars

\* variant: the branch name is used without the check
AfterBranch_unchecked(rr, currentBranch) ==
  [execGitCommand(rr, UPSTREAM_BRANCH(currentBranch)) EXCEPT !.pc = "upstream"]

\* the handler after getCurrentBranch returned
AfterBranch(rr, currentBranch) ==
  IF Falsy(currentBranch)
  THEN [showErrorMessage(rr, MsgDetached) EXCEPT !.pc = "detached"]
  ELSE [execGitCommand(rr, UPSTREAM_BRANCH(currentBranch)) EXCEPT !.pc = "upstream"]

\* getCurrentBranch returns; detached HEAD aborts, else the upstream query is awaited.
BranchDone(r) ==
  /\ run[r].pc = "branch"
  /\ \E fails \in BOOLEAN :
       LET currentBranch == GitQuery(CURRENT_BRANCH, fails)
           rr == [Returned(run[r], CURRENT_BRANCH) EXCEPT !.currentBranch = currentBranch]
       IN run' = [run EXCEPT ![r] = AfterBranch(rr, currentBranch)]
  /\ UNCHANGED repoVars

\* variant: the full log whatever the upstream
localCommitLogsCmd_full(currentUpstreamBranch, currentBranch) == LOCAL_COMMITS

localCommitLogsCmd(currentUpstreamBranch, currentBranch) ==
  IF ~Falsy(currentUpstreamBranch)
  THEN LOCAL_COMMITS_TRACKING(currentUpstreamBranch, currentBranch)
  ELSE LOCAL_COMMITS

\* getCurrentUpStreamBranch returns; the log query chosen by its result is awaited.
UpstreamDone(r) ==
  /\ run[r].pc = "upstream"
  /\ \E fails \in BOOLEAN :
       LET cmd == UPSTREAM_BRANCH(run[r].currentBranch)
           currentUpstreamBranch == GitQuery(cmd, fails)
           rr == [Returned(run[r], cmd) EXCEPT !.currentUpstreamBranch = currentUpstreamBranch]
       IN run' = [run EXCEPT ![r] =
            [execGitCommand(rr, localCommitLogsCmd(currentUpstreamBranch, rr.currentBranch))
               EXCEPT !.pc = "log"]]
  /\ UNCHANGED repoVars

\* variant: the selector opens whatever the query returned
AfterLog_unchecked(rr, localCommits) ==
  [showCommitSelection(rr, localCommits) EXCEPT !.pc = "select"]

\* the handler after getLocalCommits returned
AfterLog(rr, localCommits) ==
  IF FalsyText(localCommits)
  THEN [showInformationMessage(rr, MsgNoCommits) EXCEPT !.pc = "noCommits"]
  ELSE [showCommitSelection(rr, localCommits) EXCEPT !.pc = "select"]

\* getLocalCommits returns; an empty list ends the run, else the selector opens.
LogDone(r) ==
  /\ run[r].pc = "log"
  /\ run[r].handler = "squashCommits"
  /\ \E fails \in BOOLEAN :
       LET cmd == run[r].issued[Len(run[r].issued)]
           localCommits == GitQuery(cmd, fails)
           rr == [Returned(run[r], cmd) EXCEPT !.localCommits = localCommits,
                                               !.seen = RepoSnapshot]
       IN run' = [q \in Runs |->
                    IF q = r THEN AfterLog(rr, localCommits)
                    ELSE IF FalsyText(localCommits) THEN run[q]
                    ELSE hide(run[q])]   \* show() takes the place of a showing selector
  /\ UNCHANGED repoVars

RECURSIVE SumAccepts(_)
SumAccepts(n) == IF n = 0 THEN 0 ELSE run[n].accepts + SumAccepts(n - 1)
TotalAccepts == SumAccepts(MaxRuns)

\* The user presses accept on the selector, with a row selected or with none.
UserAccept(r) ==
  /\ run[r].quickPick.visible
  /\ TotalAccepts < MaxAccepts
  /\ \E row \in 0..Len(run[r].quickPick.items) :
       /\ row > 0 => run[r].quickPick.items[row] # Hole
       /\ run' = [run EXCEPT ![r] =
            onDidAccept([run[r] EXCEPT !.accepts = @ + 1,
                                       !.acceptedRow = IF @ = 0 THEN row ELSE @], row)]
  /\ UNCHANGED repoVars

\* The user dismisses the selector (Escape, focus loss).
UserDismiss(r) ==
  /\ run[r].quickPick.visible
  /\ run' = [run EXCEPT ![r] = hide(run[r])]
  /\ UNCHANGED repoVars

\* The 200 ms timer of an animation fires: the next animate().
AnimateTimer(r) ==
  /\ \E a \in 1..Len(run[r].anims) :
       /\ run[r].anims[a].timer = "animate"
       /\ run' = [run EXCEPT ![r] = animate(run[r], a)]
  /\ UNCHANGED repoVars

\* variant: the last timer only hides the selector
hideAndReport_silent(rr, a) == [hide(rr) EXCEPT !.anims[a].timer = "over"]

\* the callback of the last timer of an animation
hideAndReport(rr, a) ==
  Notify([hide(rr) EXCEPT !.anims[a].timer = "over"], "info", MsgReady,
         rr.commits[rr.anims[a].selectedIndex + 1])

\* The totalDuration timer of an animation fires: hide() and the "Ready" message.
HideTimer(r) ==
  /\ \E a \in 1..Len(run[r].anims) :
       /\ run[r].anims[a].timer = "hide"
       /\ run' = [run EXCEPT ![r] = hideAndReport(run[r], a)]
  /\ UNCHANGED repoVars

\* variant: a failed squash command is run again from its first step
SquashFailed_retry(rr) == [rr EXCEPT !.proc = "reset"]

\* the handler's catch block around the squash
SquashFailed(rr) ==
  [showErrorMessage(Returned(rr, rr.issued[Len(rr.issued)]), MsgSquashError)
     EXCEPT !.pc = "squashFailed", !.proc = "none", !.logged = Append(@, LogSquashError)]

\* git reset --soft of the squash command runs: the branch pointer moves, the index stays.
SquashReset(r) ==
  /\ run[r].pc = "squash"
  /\ run[r].proc = "reset"
  /\ LET target == ResetTarget(run[r].issued[Len(run[r].issued)]) IN
     \E fails \in BOOLEAN :
       IF fails \/ target = NULL
       THEN /\ run' = [run EXCEPT ![r] = SquashFailed(run[r])]
            /\ UNCHANGED repoVars
       ELSE /\ head' = target
            /\ run' = [run EXCEPT ![r].proc = "amend",
                                  ![r].mutated = @ \/ target # head]
            /\ UNCHANGED <<workspaceFolder, branch, upstream, commits, index>>

\* git commit --amend of the squash command ends (the editor was closed) and the
\* handler resumes after its await.
SquashAmend(r) ==
  /\ run[r].pc = "squash"
  /\ run[r].proc = "amend"
  /\ \E fails \in BOOLEAN :
       IF fails
       THEN /\ run' = [run EXCEPT ![r] = SquashFailed(run[r])]
            /\ UNCHANGED repoVars
       ELSE /\ commits' = (FreshCommit :> AmendCommit) @@ commits
            /\ head' = FreshCommit
            /\ run' = [run EXCEPT ![r] =
                 [showInformationMessage(Returned(run[r], run[r].issued[Len(run[r].issued)]),
                                         MsgSquashed)
                    EXCEPT !.pc = "done", !.proc = "none", !.mutated = TRUE,
                           !.made = [history |-> History(commits', head'),
                                     head |-> head', index |-> index]]]
            /\ UNCHANGED <<workspaceFolder, branch, upstream, index>>

\* ------------------------------------------------------- helloWorld handler
\* The helloWorld command is invoked; its first steps are those of squashCommits.
InvokeHello(r) ==
  /\ run[r].pc = "idle"
  /\ \A q \in Runs : q < r => run[q].pc # "idle"
  /\ MayInvoke(r)
  /\ run' = [run EXCEPT ![r] = Start(run[r], "helloWorld")]
  /\ UNCHANGED repoVars

\* the helloWorld handler after getLocalCommits returned
helloWorld_AfterLog(rr, localCommits) ==
  IF FalsyText(localCommits)
  THEN [showInformationMessage(rr, MsgNoCommits) EXCEPT !.pc = "noCommits"]
  ELSE [rr EXCEPT !.commits = localCommits, !.pc = "pick"]

\* getLocalCommits returns in the helloWorld handler; showQuickPick is awaited.
LogDoneHello(r) ==
  /\ run[r].pc = "log"
  /\ run[r].handler = "helloWorld"
  /\ \E fails \in BOOLEAN :
       LET cmd == run[r].issued[Len(run[r].issued)]
           localCommits == GitQuery(cmd, fails)
           rr == [Returned(run[r], cmd) EXCEPT !.localCommits = localCommits,
                                               !.seen = RepoSnapshot]
       IN run' = [run EXCEPT ![r] = helloWorld_AfterLog(rr, localCommits)]
  /\ UNCHANGED repoVars

\* the rows of lines whose index is in S, in list order
RECURSIVE PickRows(_, _, _)
PickRows(lines, S, k) ==
  IF k > Len(lines) THEN <<>>
  ELSE (IF k \in S THEN <<lines[k]>> ELSE <<>>) \o PickRows(lines, S, k + 1)

\* the helloWorld handler from the return of showQuickPick to its end; the squash
\* command is started and not awaited
helloWorld_AfterPick(rr, selectedCommits) ==
  LET r1 == [rr EXCEPT !.selectedCommits = selectedCommits] IN
  IF selectedCommits = NullText
  THEN [showInformationMessage(r1, MsgNoneSelected) EXCEPT !.pc = "noSelection"]
  ELSE IF Len(selectedCommits) > 1
  THEN [showInformationMessage(r1, MsgManySelected) EXCEPT !.pc = "noSelection"]
  ELSE IF Len(selectedCommits) = 0
  THEN [r1 EXCEPT !.pc = "selectionError", !.logged = Append(@, LogSelectionError)]
  ELSE LET commitID == selectedCommits[1][1] IN
       IF Falsy(commitID)
       THEN [r1 EXCEPT !.commitID = commitID, !.pc = "noSelection"]
       ELSE [execGitCommand(r1, helloWorld_SQUASH_AND_COMMIT(commitID))
               EXCEPT !.commitID = commitID, !.pc = "done", !.proc = "reset"]

\* The user confirms the multi-select picker with some rows checked, or dismisses it.
PickHello(r) ==
  /\ run[r].pc = "pick"
  /\ \E selectedCommits \in
          {NullText} \cup {PickRows(run[r].commits, S, 1) : S \in SUBSET (1..Len(run[r].commits))} :
       run' = [run EXCEPT ![r] = helloWorld_AfterPick(run[r], selectedCommits)]
  /\ UNCHANGED repoVars

\* the promise nobody awaits is rejected
helloWorld_SquashFailed(rr) ==
  [Returned(rr, rr.issued[Len(rr.issued)]) EXCEPT !.proc = "none", !.unhandled = TRUE]

\* git reset --soft of the squash started by the helloWorld handler runs.
SquashResetHello(r) ==
  /\ run[r].handler = "helloWorld"
  /\ run[r].proc = "reset"
  /\ LET target == ResetTarget(run[r].issued[Len(run[r].issued)]) IN
     \E fails \in BOOLEAN :
       IF fails \/ target = NULL
       THEN /\ run' = [run EXCEPT ![r] = helloWorld_SquashFailed(run[r])]
            /\ UNCHANGED repoVars
       ELSE /\ head' = target
            /\ run' = [run EXCEPT ![r].proc = "amend",
                                  ![r].mutated = @ \/ target # head]
            /\ UNCHANGED <<workspaceFolder, branch, upstream, commits, index>>

\* git commit --amend of the squash started by the helloWorld handler ends.
SquashAmendHello(r) ==
  /\ run[r].handler = "helloWorld"
  /\ run[r].proc = "amend"
  /\ \E fails \in BOOLEAN :
       IF fails
       THEN /\ run' = [run EXCEPT ![r] = helloWorld_SquashFailed(run[r])]
            /\ UNCHANGED repoVars
       ELSE /\ commits' = (FreshCommit :> AmendCommit) @@ commits
            /\ head' = FreshCommit
            /\ run' = [run EXCEPT ![r] =
                 [Returned(run[r], run[r].issued[Len(run[r].issued)])
                    EXCEPT !.proc = "none", !.mutated = TRUE,
                           !.made = [history |-> History(commits', head'),
                                     head |-> head', index |-> index]]]
            /\ UNCHANGED <<workspaceFolder, branch, upstream, index>>

Init ==
  /\ workspaceFolder \in {UNDEFINED, WorkspacePath}
  /\ branch \in {NULL, BranchName}
  /\ commits = InitialCommits
  /\ head = CommitName(NumCommits)
  /\ upstream \in {NULL} \cup DOMAIN InitialCommits
  /\ index \in {InitialCommits[CommitName(NumCommits)].tree, 0}
  /\ run = [r \in Runs |-> IdleRun]

Next ==
  \E r \in Runs :
    \/ Invoke(r)
    \/ BranchDone(r)
    \/ UpstreamDone(r)
    \/ LogDone(r)
    \/ UserAccept(r)
    \/ UserDismiss(r)
    \/ AnimateTimer(r)
    \/ HideTimer(r)
    \/ SquashReset(r)
    \/ SquashAmend(r)

Spec == Init /\ [][Next]_vars

NextHello ==
  \E r \in Runs :
    \/ InvokeHello(r)
    \/ BranchDone(r)
    \/ UpstreamDone(r)
    \/ LogDoneHello(r)
    \/ PickHello(r)
    \/ SquashResetHello(r)
    \/ SquashAmendHello(r)

SpecHello == Init /\ [][NextHello]_vars

\* The command is invoked whatever the state of earlier runs: registerCommand starts
\* the handler at every invocation, and a run suspended at an await does not block it.
InvokeOverlapping(r) ==
  /\ run[r].pc = "idle"
  /\ \A q \in Runs : q < r => run[q].pc # "idle"
  /\ run' = [run EXCEPT ![r] = Start(run[r], "squashCommits")]
  /\ UNCHANGED repoVars

\* git commit --amend ends while other runs may have moved the branch: the update of
\* the branch is refused when it no longer points at the commit being amended.
SquashAmendOverlapping(r) ==
  /\ run[r].pc = "squash"
  /\ run[r].proc = "amend"
  /\ IF head = ResetTarget(run[r].issued[Len(run[r].issued)])
     THEN SquashAmend(r)
     ELSE /\ run' = [run EXCEPT ![r] = SquashFailed(run[r])]
          /\ UNCHANGED repoVars

NextOverlapping ==
  \E r \in Runs :
    \/ InvokeOverlapping(r)
    \/ BranchDone(r)
    \/ UpstreamDone(r)
    \/ LogDone(r)
    \/ UserAccept(r)
    \/ UserDismiss(r)
    \/ AnimateTimer(r)
    \/ HideTimer(r)
    \/ SquashReset(r)
    \/ SquashAmendOverlapping(r)

SpecOverlapping == Init /\ [][NextOverlapping]_vars

\* The user settles the selector: accepts a row or dismisses it.
UserSettles(r) ==
  /\ run[r].pc = "select"
  /\ (UserAccept(r) \/ UserDismiss(r))
  /\ run'[r].pc # "select"

\* Every child process started by exec ends and its callback runs (for the squash
\* command: the user closes the commit-message editor), and the user does not leave
\* the selector open for ever.
Fairness ==
  \A r \in Runs :
    /\ WF_vars(BranchDone(r))
    /\ WF_vars(UpstreamDone(r))
    /\ WF_vars(LogDone(r))
    /\ WF_vars(SquashReset(r))
    /\ WF_vars(SquashAmend(r))
    /\ WF_vars(UserSettles(r))

SpecLive == Init /\ [][Next]_vars /\ Fairness

\* The timers set by collapseAnimation fire.
TimerFairness ==
  \A r \in Runs : WF_vars(AnimateTimer(r)) /\ WF_vars(HideTimer(r))

SpecTimers == Init /\ [][Next]_vars /\ TimerFairness

SpecFair == Init /\ [][Next]_vars /\ Fairness /\ TimerFairness

\* ================================================================= claims
Last(seq) == seq[Len(seq)]
FirstTokens(lines) == [k \in 1..Len(lines) |-> lines[k][1]]
Opened(rr) == rr.commits # <<>>
SquashIssued(rr) == \E k \in 1..Len(rr.issued) : IsSquash(rr.issued[k])
IsRoot(c) == c \in DOMAIN commits /\ commits[c].parent = NULL
HasParent(c) == c \in DOMAIN commits /\ commits[c].parent # NULL
\* the id on the row of the first accept
AcceptedId(rr) == rr.localCommits[rr.acceptedRow][1]
\* the part of a history below commit c
RECURSIVE Below(_, _)
Below(hist, c) ==
  IF hist = <<>> THEN <<>>
  ELSE IF Head(hist) = c THEN Tail(hist)
  ELSE Below(Tail(hist), c)

MsgRootCommit == "cannot squash onto the root commit"

\* C1: a run in which the user accepts the root commit as base issues no squash
\* command, changes nothing in the repository and ends with the error notification
\* "cannot squash onto the root commit".
C1_RootBaseRejected ==
  \A r \in Runs :
    (run[r].acceptedRow > 0 /\ IsRoot(AcceptedId(run[r]))) =>
      /\ ~SquashIssued(run[r])
      /\ ~run[r].mutated
      /\ Terminal(run[r]) =>
           /\ run[r].notifications # <<>>
           /\ Last(run[r].notifications).kind = "error"
           /\ Last(run[r].notifications).text = MsgRootCommit

\* C2 (as claimed): after a successful squash onto a base that has a parent, the
\* history is one new commit followed by the commits below the base, and the tree of
\* the new HEAD is the tree of the HEAD the run listed.
C2_SquashResult ==
  \A r \in Runs :
    (run[r].pc = "done" /\ HasParent(run[r].commitID)) =>
      /\ run[r].made.history =
           <<run[r].made.head>> \o Below(run[r].seen.history, run[r].commitID)
      /\ run[r].made.head \notin SeqToSet(run[r].seen.history)
      /\ commits[run[r].made.head].tree = commits[run[r].seen.head].tree

\* C2 (amended): after a successful squash onto a base that has a parent, the history
\* is one new commit followed by the untouched commits below the base; the tree of the
\* new HEAD is the index as it was when the squash ran, which is the tree of the
\* original HEAD when nothing else was staged.
C2_SquashResultStaged ==
  \A r \in Runs :
    (run[r].pc = "done" /\ HasParent(run[r].commitID)) =>
      /\ run[r].made.history =
           <<run[r].made.head>> \o Below(run[r].seen.history, run[r].commitID)
      /\ run[r].made.head \notin SeqToSet(run[r].seen.history)
      /\ run[r].commitID \in SeqToSet(run[r].seen.history)
      /\ \A c \in SeqToSet(Below(run[r].seen.history, run[r].commitID)) :
           commits[c].parent = IF Below(run[r].seen.history, c) = <<>> THEN NULL
                               ELSE Head(Below(run[r].seen.history, c))
      /\ commits[run[r].made.head].tree = run[r].made.index
      /\ run[r].made.index = run[r].seen.index
      /\ run[r].seen.index = commits[run[r].seen.head].tree =>
           commits[run[r].made.head].tree = commits[run[r].seen.head].tree

\* a squash onto an inner commit succeeded while other changes were staged
C2_Witness ==
  \E r \in Runs :
    /\ run[r].pc = "done"
    /\ HasParent(run[r].commitID)
    /\ run[r].commitID # run[r].seen.head
    /\ Len(run[r].made.history) >= 2
    /\ run[r].seen.index # commits[run[r].seen.head].tree

\* C3: a run that ends aborted (no workspace folder, detached HEAD, empty commit
\* list, cancelled or invalid selection, root commit chosen) has changed neither the
\* branch pointer nor the history nor the index.
C3_AbortedRunsLeaveRepository ==
  \A r \in Runs :
    (\/ run[r].pc \in {"noWorkspace", "detached", "noCommits", "noSelection"}
     \/ (run[r].acceptedRow > 0 /\ IsRoot(AcceptedId(run[r])))) =>
      ~run[r].mutated

\* C4: within a run the git commands are issued in the order branch query, upstream
\* query, log query, squash, each built from the result of the one before; at most
\* one is in flight, the selector opens only after the log query returned, and the
\* handler is past the squash only when the squash command has finished.
C4_StepOrder ==
  \A r \in Runs :
    LET rr == run[r] n == Len(rr.issued) IN
      /\ Cardinality(rr.inflight) <= 1
      /\ rr.inflight \subseteq (IF n = 0 THEN {} ELSE {rr.issued[n]})
      /\ n <= 4
      /\ n >= 1 => rr.issued[1] = CURRENT_BRANCH
      /\ n >= 2 => /\ rr.issued[2] = UPSTREAM_BRANCH(rr.currentBranch)
                   /\ ~Falsy(rr.currentBranch)
      /\ n >= 3 => /\ IsLog(rr.issued[3])
                   /\ Len(rr.issued[3]) > 3 =>
                        /\ rr.issued[3][4] = rr.currentUpstreamBranch
                        /\ rr.issued[3][6] = rr.currentBranch
      /\ n >= 4 => /\ IsSquash(rr.issued[4])
                   /\ ~Falsy(rr.commitID)
                   /\ rr.issued[4][4] = rr.commitID
      /\ Opened(rr) => n >= 3 /\ ~FalsyText(rr.localCommits)
      /\ rr.pc = "select" => rr.inflight = {}
      /\ Terminal(rr) => rr.inflight = {} /\ rr.proc = "none"
      /\ rr.pc = "branch" => n = 1 /\ rr.inflight = {rr.issued[1]}
      /\ rr.pc = "upstream" => n = 2 /\ rr.inflight = {rr.issued[2]}
      /\ rr.pc = "log" => n = 3 /\ rr.inflight = {rr.issued[3]}
      /\ rr.pc = "squash" => n = 4 /\ rr.inflight = {rr.issued[4]}

\* a run went through all four commands
C4_Witness ==
  \E r \in Runs : run[r].pc = "done" /\ Len(run[r].issued) = 4

\* C5 (as claimed): the squash command is reset --soft <commitId>~1 && commit
\* --amend, and its reset leaves the branch pointer on the parent of the chosen base.
C5_ResetToParent ==
  \A r \in Runs :
    /\ Len(run[r].issued) >= 4 =>
         run[r].issued[4] = <<"git", "reset", "--soft", run[r].commitID, "~1", "&&",
                              "git", "commit", "--amend">>
    /\ run[r].proc = "amend" => head = commits[run[r].commitID].parent

\* C5 (amended): the squash command is reset --soft <commitId> && commit --amend; its
\* reset leaves the branch pointer on the chosen base itself with the index as it was,
\* and its amend replaces that commit by one with the same parent and the staged tree.
C5_ResetToBase ==
  \A r \in Runs :
    /\ Len(run[r].issued) >= 4 =>
         run[r].issued[4] = <<"git", "reset", "--soft", run[r].commitID, "&&",
                              "git", "commit", "--amend">>
    /\ run[r].proc = "amend" =>
         /\ head = run[r].commitID
         /\ index = run[r].seen.index
         /\ History(commits, head) =
              <<run[r].commitID>> \o Below(run[r].seen.history, run[r].commitID)
    /\ run[r].pc = "done" =>
         /\ commits[run[r].made.head].parent = commits[run[r].commitID].parent
         /\ commits[run[r].made.head].tree = run[r].made.index
         /\ run[r].made.index = run[r].seen.index

\* the reset of a squash has moved the branch pointer, the amend is pending
C5_Witness ==
  \E r \in Runs :
    /\ run[r].proc = "amend"
    /\ head # run[r].seen.head
    /\ HasParent(run[r].commitID)

\* the commits of a listed history that the upstream does not reach
Unpushed(hist) ==
  SelectSeq(hist, LAMBDA c : c \notin SeqToSet(History(commits, upstream)))

\* C6: a run that has a branch always goes on to exactly one log query: the
\* unpushed-only query when the upstream query returned an upstream (the list shown
\* is then the commits the upstream does not reach), the full log otherwise.
C6_UpstreamPrecedence ==
  \A r \in Runs :
    LET rr == run[r] n == Len(rr.issued) IN
      /\ (n >= 2 /\ rr.pc # "upstream") => n >= 3
      /\ n >= 3 =>
           /\ Cardinality({k \in 1..n : IsLog(rr.issued[k])}) = 1
           /\ IF ~Falsy(rr.currentUpstreamBranch)
              THEN /\ rr.issued[3] = <<"git", "log", "--oneline",
                                        rr.currentUpstreamBranch, "..", rr.currentBranch>>
                   /\ LOCAL_COMMITS \notin SeqToSet(rr.issued)
                   /\ Opened(rr) => FirstTokens(rr.commits) = Unpushed(rr.seen.history)
              ELSE /\ rr.issued[3] = <<"git", "log", "--oneline">>
                   /\ Opened(rr) => FirstTokens(rr.commits) = rr.seen.history

\* an upstream was found and the list shown is shorter than the full log
C6_Witness ==
  \E r \in Runs :
    /\ Opened(run[r])
    /\ ~Falsy(run[r].currentUpstreamBranch)
    /\ Len(run[r].commits) < Len(run[r].seen.history)

\* C7: the commit id the handler obtains from the selector is null ("no selection")
\* or the first token of the log line on the row of the first accept; it is never a
\* token of the label decoration, whatever events follow.
C7_SelectedIdFromList ==
  \A r \in Runs :
    LET rr == run[r] IN
      /\ rr.commitID # UNDEFINED
      /\ rr.commitID \notin DecorationTokens
      /\ rr.commitID # NULL =>
           /\ rr.acceptedRow > 0
           /\ rr.commitID = AcceptedId(rr)
           /\ rr.commitID \in SeqToSet(FirstTokens(rr.localCommits))
      /\ (rr.settled /\ rr.commitID = NULL) => rr.selectedCommit = <<>>
      /\ (rr.settled /\ rr.acceptedRow > 0 /\ rr.selectedCommit # <<>>) =>
           rr.commitID = AcceptedId(rr)

\* two accepts with a row each were fired on one selector and an id was obtained
C7_Witness ==
  \E r \in Runs :
    /\ Len(run[r].anims) = 2
    /\ run[r].commitID # NULL
    /\ run[r].acceptedRow > 1

\* C8: when the branch query fails or yields no branch name the run ends with the
\* "checkout to a branch" error notification, and the branch query is the only git
\* command of the run.
C8_DetachedHead ==
  \A r \in Runs :
    LET rr == run[r] IN
      (Len(rr.issued) >= 1 /\ rr.pc # "branch" /\ Falsy(rr.currentBranch)) =>
        /\ rr.pc = "detached"
        /\ rr.notifications =
             << [kind |-> "error",
                 text |-> "You are maybe in detached State, please checkout to a branch",
                 arg |-> <<>>] >>
        /\ rr.issued = <<CURRENT_BRANCH>>
        /\ rr.inflight = {}
        /\ ~Opened(rr)

\* a run ended on a detached HEAD
C8_Witness ==
  \E r \in Runs : run[r].pc = "detached" /\ branch = NULL

\* C9: the selector is never opened with an empty commit list: when the log query
\* fails or returns no output the run ends with the informational notification
\* "No local commits found.", without selector and without squash.
C9_NoEmptySelector ==
  \A r \in Runs :
    LET rr == run[r] IN
      /\ Opened(rr) => /\ ~FalsyText(rr.localCommits)
                       /\ Len(rr.commits) >= 1
                       /\ rr.commits = rr.localCommits
      /\ (Len(rr.issued) >= 3 /\ rr.pc # "log" /\ FalsyText(rr.localCommits)) =>
           /\ rr.pc = "noCommits"
           /\ rr.notifications =
                << [kind |-> "info", text |-> "No local commits found.", arg |-> <<>>] >>
           /\ ~Opened(rr)
           /\ rr.quickPick = NoQuickPick
           /\ ~SquashIssued(rr)

\* one run ended on a log query that failed, another on one that returned no output
C9_Witness ==
  \E r, q \in Runs :
    /\ run[r].pc = "noCommits" /\ run[r].localCommits = NullText
    /\ run[q].pc = "noCommits" /\ run[q].localCommits = <<>>

\* C10: when the selector is dismissed without a row having been accepted the run
\* has ended, silently: it shows no notification and issues no further git command.
C10_SilentCancel ==
  \A r \in Runs :
    LET rr == run[r] IN
      (rr.quickPick.disposed /\ rr.acceptedRow = 0) =>
        /\ rr.pc = "noSelection"
        /\ rr.notifications = <<>>
        /\ Len(rr.issued) = 3
        /\ rr.inflight = {}
        /\ rr.anims = <<>>
        /\ ~rr.mutated

\* the user pressed accept with no row selected and then dismissed the selector
C10_Witness ==
  \E r \in Runs :
    /\ run[r].pc = "noSelection"
    /\ run[r].quickPick.disposed
    /\ run[r].accepts >= 1

\* C11: when the amend step of a squash fails after its reset step succeeded, the run
\* ends with the squash error notification and the logged detail; the branch pointer
\* stays on the reset target, the index stays as it was (the changes of the commits
\* above the base are staged), no commit is created, and neither step is run again:
\* the failed run issues no further command and changes nothing in the repository.
C11_PartialSquashFailure ==
  [][\A r \in Runs :
       /\ (run[r].pc = "squash" /\ run[r].proc = "amend") =>
            /\ run'[r].proc \in {"amend", "none"}
            /\ run'[r].issued = run[r].issued
       /\ (run[r].pc = "squash" /\ run[r].proc = "amend"
             /\ run'[r].pc \notin {"squash", "done"}) =>
            /\ run'[r].pc = "squashFailed"
            /\ run'[r].notifications =
                 Append(run[r].notifications,
                        [kind |-> "error",
                         text |-> "An Error Occurred while squashing commits",
                         arg |-> <<>>])
            /\ run'[r].logged = Append(run[r].logged, "An Error Occurred while squashing")
            /\ head' = head
            /\ head = run[r].commitID
            /\ index' = index
            /\ index = run[r].seen.index
            /\ commits' = commits
            /\ run'[r].inflight = {}
       /\ (run[r].pc = "squashFailed" /\ run'[r] # run[r]) =>
            /\ run'[r].pc = "squashFailed"
            /\ run'[r].issued = run[r].issued
            /\ run'[r].proc = "none"
            /\ UNCHANGED repoVars]_vars

\* the amend of a squash onto a commit below HEAD failed: the branch pointer is on
\* the base, the commits above it are off the branch and no commit was created
C11_Witness ==
  \E r \in Runs :
    /\ run[r].pc = "squashFailed"
    /\ run[r].mutated
    /\ head = run[r].commitID
    /\ head # run[r].seen.head
    /\ DOMAIN commits = DOMAIN InitialCommits
    /\ index = run[r].seen.index

Texts(notifications) == {notifications[k].text : k \in 1..Len(notifications)}
\* the squash command of the run has ended
SquashEnded(rr) ==
  SquashIssued(rr) /\ \A cmd \in rr.inflight : ~IsSquash(cmd)

\* C12: "Commits squashed!" is shown only after the squash command (reset, amend and
\* the wait for the editor) has ended with success; when the squash command has
\* failed, "An Error Occurred while squashing commits" is shown and "Commits
\* squashed!" is not shown in that run.
C12_SquashOutcome ==
  \A r \in Runs :
    LET rr == run[r] IN
      /\ "Commits squashed!" \in Texts(rr.notifications) =>
           /\ SquashEnded(rr)
           /\ rr.proc = "none"
           /\ rr.made # NoSnapshot
           /\ "An Error Occurred while squashing commits" \notin Texts(rr.notifications)
      /\ (SquashEnded(rr) /\ rr.made = NoSnapshot) =>
           /\ "An Error Occurred while squashing commits" \in Texts(rr.notifications)
           /\ "Commits squashed!" \notin Texts(rr.notifications)

\* the notifications of the handler, and those of the animation callbacks
HandlerNotifications(rr) ==
  SelectSeq(rr.notifications, LAMBDA n : n.text # "Ready to squash above:")
ReadyNotifications(rr) ==
  SelectSeq(rr.notifications, LAMBDA n : n.text = "Ready to squash above:")
Info(text) == [kind |-> "info", text |-> text, arg |-> <<>>]
Error(text) == [kind |-> "error", text |-> text, arg |-> <<>>]

\* C13 (as claimed): every run shows at most one notification, and a run that reached
\* the squash and ended shows exactly one.
C13_SingleNotification ==
  \A r \in Runs :
    /\ Len(run[r].notifications) <= 1
    /\ run[r].pc \in {"done", "squashFailed"} => Len(run[r].notifications) = 1

\* C13 (amended): a run that aborts before the selector shows exactly its terminal
\* notification and a cancelled selection shows none; a run that reaches the squash
\* shows the progress message "Squashing commits..." when the squash starts and then
\* exactly one terminal notification, "Commits squashed!" or the squash error; on top
\* of these every animation whose last timer fired has shown one "Ready to squash
\* above: <line>" message, whenever that timer fires.
C13_NotificationsPerRun ==
  \A r \in Runs :
    LET rr == run[r]
        byHandler == HandlerNotifications(rr)
        over == {a \in 1..Len(rr.anims) : rr.anims[a].timer = "over"}
    IN
      /\ Len(ReadyNotifications(rr)) = Cardinality(over)
      /\ \A k \in 1..Len(ReadyNotifications(rr)) :
           /\ ReadyNotifications(rr)[k].kind = "info"
           /\ \E a \in over :
                ReadyNotifications(rr)[k].arg = rr.localCommits[rr.anims[a].selectedIndex + 1]
      /\ Len(rr.anims) <= rr.accepts
      /\ rr.pc \in {"idle", "branch", "upstream", "log", "select"} => rr.notifications = <<>>
      /\ rr.pc = "noWorkspace" => rr.notifications = <<Error("No workspace folder found.")>>
      /\ rr.pc = "detached" =>
           rr.notifications =
             <<Error("You are maybe in detached State, please checkout to a branch")>>
      /\ rr.pc = "noCommits" => rr.notifications = <<Info("No local commits found.")>>
      /\ rr.pc = "noSelection" => rr.notifications = <<>>
      /\ rr.pc = "squash" =>
           byHandler = <<Info("Squashing commits. Edit the message or close the editor to keep the default")>>
      /\ rr.pc = "done" =>
           byHandler = <<Info("Squashing commits. Edit the message or close the editor to keep the default"),
                         Info("Commits squashed!")>>
      /\ rr.pc = "squashFailed" =>
           byHandler = <<Info("Squashing commits. Edit the message or close the editor to keep the default"),
                         Error("An Error Occurred while squashing commits")>>

\* a run that squashed has shown the progress message, the success message and, after
\* it had ended, the "Ready to squash above" message of its animation
C13_Witness ==
  \E r \in Runs :
    /\ run[r].pc = "done"
    /\ Len(run[r].notifications) = 3
    /\ Last(run[r].notifications).text = "Ready to squash above:"
    /\ run[r].notifications[2].text = "Commits squashed!"

\* the command lines of a run matching a test, as positions in the order of issue
IssuedWhere(rr, Test(_)) == {k \in 1..Len(rr.issued) : Test(rr.issued[k])}
IsBranchQuery(cmd) == cmd = CURRENT_BRANCH
IsUpstreamQuery(cmd) == Len(cmd) >= 2 /\ cmd[2] = "rev-parse"

\* C14: when every git command returns and the user accepts a row or dismisses the
\* selector, every run that started reaches a terminal state and stays there, also
\* after an accept with no row selected; and a run issues each of its git commands
\* (branch query, upstream query, log query, squash) at most once.
C14_Termination ==
  /\ \A r \in Runs : run[r].pc # "idle" ~> Terminal(run[r])
  /\ [][\A r \in Runs : Terminal(run[r]) => Terminal(run'[r])]_vars
  /\ [](\A r \in Runs :
          /\ Cardinality(IssuedWhere(run[r], IsBranchQuery)) <= 1
          /\ Cardinality(IssuedWhere(run[r], IsUpstreamQuery)) <= 1
          /\ Cardinality(IssuedWhere(run[r], IsLog)) <= 1
          /\ Cardinality(IssuedWhere(run[r], IsSquash)) <= 1
          /\ Len(run[r].issued) <= 4)

\* a run ended after the user had pressed accept with no row selected, and a squash
\* command was among its four commands
C14_Witness ==
  \E r \in Runs :
    /\ Terminal(run[r])
    /\ run[r].accepts = 2
    /\ Len(run[r].anims) = 1
    /\ Len(run[r].issued) = 4

\* C15: no failure of a git command leaves a run as an unhandled exception or an
\* unhandled promise rejection: a failed query reaches the handler as null (the branch
\* name, the upstream name, the commit list), and a failed squash command is caught
\* by the handler, which logs it and shows the squash error.
C15_NoEscapingFailure ==
  \A r \in Runs :
    LET rr == run[r] IN
      /\ ~rr.unhandled
      /\ rr.currentBranch \in {NULL, BranchName}
      /\ rr.currentUpstreamBranch \in {NULL, UpstreamName}
      /\ \/ rr.localCommits = NullText
         \/ \A k \in 1..Len(rr.localCommits) : rr.localCommits[k][1] \in DOMAIN commits
      /\ (SquashEnded(rr) /\ rr.made = NoSnapshot) =>
           /\ rr.logged = <<"An Error Occurred while squashing">>
           /\ Last(rr.notifications).text = "An Error Occurred while squashing commits"
                \/ Last(rr.notifications).text = "Ready to squash above:"

C17_NoWorkspace ==
  \A r \in Runs :
    LET rr == run[r] IN
      /\ (rr.pc # "idle" /\ Falsy(workspaceFolder)) =>
           /\ rr.pc = "noWorkspace"
           /\ rr.notifications = <<Error("No workspace folder found.")>>
           /\ rr.issued = <<>>
           /\ rr.inflight = {}
           /\ ~Opened(rr)
           /\ ~rr.mutated
      /\ rr.pc = "noWorkspace" => Falsy(workspaceFolder)

\* the command was invoked twice without a workspace folder
C17_Witness ==
  /\ workspaceFolder = UNDEFINED
  /\ \A r \in Runs : run[r].pc = "noWorkspace"

\* C18: the result of the selector is settled once: the accept of a row delivers the
\* label that row had before the animation touched the list, and the handler goes on
\* to the squash in that same step, with the animation still running; the rewrites of
\* the items, the hide() of the animation, a dismissal and further accepts leave the
\* delivered label, the commit id and the handler's course as they are.
C18_SelectionSettledOnce ==
  /\ [](\A r \in Runs :
          run[r].acceptedRow > 0 =>
            /\ run[r].settled
            /\ run[r].selectedCommit =
                 <<"$(git-commit)", "Commit:">> \o run[r].localCommits[run[r].acceptedRow]
            /\ run[r].commitID = run[r].localCommits[run[r].acceptedRow][1]
            /\ run[r].pc \in {"squash", "done", "squashFailed"})
  /\ [][\A r \in Runs :
          /\ run[r].settled =>
               /\ run'[r].settled
               /\ run'[r].selectedCommit = run[r].selectedCommit
               /\ run'[r].commitID = run[r].commitID
               /\ run'[r].pc # "noSelection" \/ run[r].pc = "noSelection"
               /\ Len(run'[r].issued) = Len(run[r].issued)
          /\ (run[r].acceptedRow = 0 /\ run'[r].acceptedRow > 0) =>
               /\ ~run[r].settled
               /\ run'[r].pc = "squash"
               /\ SquashIssued(run'[r])
               /\ run'[r].quickPick.visible
               /\ run'[r].anims[1].timer \in {"animate", "hide"}]_vars

\* after the accept of a row the user accepted a rewritten row, the selector was
\* hidden and the squash ended while a timer of the animation was still pending
C18_Witness ==
  \E r \in Runs :
    /\ run[r].acceptedRow > 1
    /\ Len(run[r].anims) = 2
    /\ run[r].anims[2].selectedIndex + 1 # run[r].acceptedRow
    /\ run[r].quickPick.disposed
    /\ run[r].pc = "done"
    /\ \E a \in 1..2 : run[r].anims[a].timer # "over"

\* C19: at most one run is between its start and a terminal state at any moment, so
\* no two runs have a squash command pending together, and a squash command waits to
\* run only on the history its run listed.
C19_OneRunAtATime ==
  /\ Cardinality({r \in Runs : Active(run[r])}) <= 1
  /\ Cardinality({r \in Runs : run[r].proc # "none"}) <= 1
  /\ \A r \in Runs :
       (run[r].pc = "squash" /\ run[r].proc = "reset") =>
         /\ History(commits, head) = run[r].seen.history
         /\ run[r].commitID \in SeqToSet(History(commits, head))

\* the a-th animation of run r before a step; one that the step starts is at its start
AnimBefore(r, a) ==
  IF a <= Len(run[r].anims) THEN run[r].anims[a]
  ELSE [selectedIndex |-> run'[r].anims[a].selectedIndex, i |-> 0, timer |-> "none"]

\* C20: the animation started by the accept of the row at index s marks the rows 0,
\* 1, ..., s-1 as "Squashing..." one per step in that order and no row at index s or
\* beyond, then replaces the list by the single row of commit s marked "Final base
\* commit" (at once when s = 0), then hides the selector; it makes exactly s marking
\* steps, and when its timers fire it comes to its end. For the first accept commit s
\* is the base the squash runs on.
C20_AnimationProgression ==
  /\ [][\A r \in Runs : \A a \in 1..Len(run'[r].anims) :
          LET old == AnimBefore(r, a)
              new == run'[r].anims[a]
              s == new.selectedIndex
              items == run[r].quickPick.items
              newItems == run'[r].quickPick.items
          IN /\ Len(run'[r].anims) >= Len(run[r].anims)
             /\ s = old.selectedIndex
             /\ 0 <= new.i /\ new.i <= s /\ s < Len(run'[r].commits)
             /\ new.timer \in {"hide", "over"} => new.i = s
             /\ a = 1 => /\ s + 1 = run'[r].acceptedRow
                         /\ run'[r].commits[s + 1][1] = run'[r].commitID
             /\ new # old =>
                  \/ /\ old.timer \in {"none", "animate"}
                     /\ old.i < s
                     /\ new.i = old.i + 1
                     /\ new.timer = "animate"
                     /\ Len(newItems) >= old.i + 1
                     /\ newItems[old.i + 1] =
                          [label |-> <<"$(arrow-down)">> \o run'[r].commits[old.i + 1],
                           description |-> "Squashing..."]
                     /\ \A k \in 1..Len(items) : k # old.i + 1 => newItems[k] = items[k]
                  \/ /\ old.timer \in {"none", "animate"}
                     /\ old.i = s
                     /\ new.i = s
                     /\ new.timer = "hide"
                     /\ newItems = << [label |-> <<"$(check)">> \o run'[r].commits[s + 1],
                                       description |-> "Final base commit"] >>
                  \/ /\ old.timer = "hide"
                     /\ new.i = s
                     /\ new.timer = "over"
                     /\ newItems = items
                     /\ ~run'[r].quickPick.visible]_vars
  /\ \A r \in Runs : \A a \in 1..MaxAccepts :
       (Len(run[r].anims) >= a) ~> (Len(run[r].anims) >= a /\ run[r].anims[a].timer = "over")

\* the animation of an accept of the last of three rows has marked both rows above it,
\* shown the final row and hidden the selector
C20_Witness ==
  \E r \in Runs :
    /\ Len(run[r].anims) = 1
    /\ run[r].anims[1].selectedIndex = 2
    /\ run[r].anims[1].i = 2
    /\ run[r].anims[1].timer = "over"
    /\ Len(run[r].quickPick.items) = 1
    /\ ~run[r].quickPick.visible

\* the positional annotations a row description carries
Annotations(description) ==
  IF description = "\t(Most recent)" THEN {"most recent"}
  ELSE IF description = "\t(Oldest)" THEN {"oldest"}
  ELSE {}

\* C21: in a selector as it was opened, on a list of n >= 1 commits, the row of the
\* newest commit (the first) carries the annotation "most recent", the row of the
\* oldest commit (the last) carries the annotation "oldest", the rows between carry
\* none, and every row is labelled with its log line; for n = 1 the single row is the
\* newest and the oldest.
C21_PositionalAnnotation ==
  \A r \in Runs :
    LET rr == run[r] items == rr.quickPick.items n == Len(rr.quickPick.items) IN
      (Opened(rr) /\ rr.anims = <<>>) =>
        /\ n >= 1
        /\ n = Len(rr.localCommits)
        /\ \A k \in 1..n :
             items[k].label = <<"$(git-commit)", "Commit:">> \o rr.localCommits[k]
        /\ "most recent" \in Annotations(items[1].description)
        /\ "oldest" \in Annotations(items[n].description)
        /\ \A k \in 2..(n - 1) : Annotations(items[k].description) = {}
        /\ n >= 2 => /\ Annotations(items[1].description) = {"most recent"}
                     /\ Annotations(items[n].description) = {"oldest"}

\* positions of the notifications of a run with the given text
Shown(rr, text) == {k \in 1..Len(rr.notifications) : rr.notifications[k].text = text}

\* C22: in a run where a row was accepted, when the squash command is issued the
\* selector has been hidden and "Ready to squash above: <commit>" has been shown: the
\* squash is never pending while an animation is running, and every "Ready to squash
\* above" notification precedes the "Squashing commits..." message of the handler.
C22_ReadyBeforeSquash ==
  \A r \in Runs :
    LET rr == run[r]
        ready == Shown(rr, "Ready to squash above:")
        squashing ==
          Shown(rr, "Squashing commits. Edit the message or close the editor to keep the default")
    IN
      (rr.acceptedRow > 0 /\ SquashIssued(rr)) =>
        /\ ready # {}
        /\ \A k \in ready : \A j \in squashing : k < j
        /\ rr.pc = "squash" =>
             /\ ~rr.quickPick.visible
             /\ \A a \in 1..Len(rr.anims) : rr.anims[a].timer = "over"

\* C23: once the selector of a run is disposed nothing of that run touches it: no
\* timer of an animation assigns its items or calls hide() on it afterwards; it is
\* disposed once, when it is hidden, and stays so; and every selector that was opened
\* is disposed in the end.
C23_NoUseAfterDispose ==
  /\ [][\A r \in Runs :
          run[r].quickPick.disposed =>
            /\ run'[r].quickPick = run[r].quickPick
            /\ run'[r].anims = run[r].anims]_vars
  /\ [](\A r \in Runs : run[r].quickPick.disposed => ~run[r].quickPick.visible)
  /\ \A r \in Runs : Opened(run[r]) ~> run[r].quickPick.disposed

====
